---- MODULE Spec2Model ----
(***************************************************************************)
(* A model of instagram_downloader.InstagramDownloader                     *)
(* (src/instagram_downloader/downloader.py) and of its example caller      *)
(* (src/example.py).                                                       *)
(*                                                                         *)
(* Text (URLs, error messages, identifiers, file names) is a sequence of   *)
(* one-character strings, so that the regular expressions, urlparse, the   *)
(* substring tests and the string slicing of the source are computed and   *)
(* not assumed.  Python's None is the string "None" where the other values *)
(* are atoms and the one-element sequence NoneText where they are text.     *)
(***************************************************************************)
EXTENDS FiniteSets, Integers, Sequences, TLC

VARIABLES self, fs, config, made, calls, ret, held

vars == <<self, fs, config, made, calls, ret, held>>

None == "None"

NoneText == <<"None">>

\* ------------------------------------------------------------------ text

Min(S) == CHOOSE x \in S : \A y \in S : x <= y

StartsWith(s, p) == Len(p) <= Len(s) /\ SubSeq(s, 1, Len(p)) = p

EndsWith(s, p) == Len(p) <= Len(s) /\ SubSeq(s, Len(s) - Len(p) + 1, Len(s)) = p

\* str.find(c, start) on 1-based positions; 0 when c does not occur
Find(s, c, start) ==
    LET hits == {i \in start..Len(s) : s[i] = c}
    IN  IF hits = {} THEN 0 ELSE Min(hits)

\* str.rfind(c) on 1-based positions; 0 when c does not occur
RFind(s, c) ==
    LET hits == {i \in 1..Len(s) : s[i] = c}
    IN  IF hits = {} THEN 0 ELSE CHOOSE i \in hits : \A j \in hits : j <= i

\* the test `sub in s`
Contains(s, sub) ==
    \E i \in 0..(Len(s) - Len(sub)) : SubSeq(s, i + 1, i + Len(sub)) = sub

UpperCase == <<"A","B","C","D","E","F","G","H","I","J","K","L","M","N","O","P","Q","R","S","T","U","V","W","X","Y","Z">>

LowerCase == <<"a","b","c","d","e","f","g","h","i","j","k","l","m","n","o","p","q","r","s","t","u","v","w","x","y","z">>

Digits == <<"0","1","2","3","4","5","6","7","8","9">>

Range(s) == {s[i] : i \in 1..Len(s)}

\* str.lower()
lower(s) ==
    [i \in 1..Len(s) |->
        IF s[i] \in Range(UpperCase)
        THEN LowerCase[CHOOSE k \in 1..Len(UpperCase) : UpperCase[k] = s[i]]
        ELSE s[i]]

\* ------------------------------------------------------------------ URLs

\* the patterns with stories tried before highlights
INSTAGRAM_PATTERNS_stories_first ==
    << [name |-> "post",       path |-> <<"/","p","/">>],
       [name |-> "reel",       path |-> <<"/","r","e","e","l","/">>],
       [name |-> "highlight",  path |-> <<"/","s","/","a","G","l","n","a","G","x","p","Z","2","h","0">>],
       [name |-> "stories",    path |-> <<"/","s","t","o","r","i","e","s","/">>],
       [name |-> "highlights", path |-> <<"/","s","t","o","r","i","e","s","/","h","i","g","h","l","i","g","h","t","s","/">>] >>

\* The five patterns in the dict's order.  Each is
\*   (https?://)?(www\.)?instagram\.com<path>[^/?#&]+
\* and is kept as its name and the literal <path> that follows the host.
INSTAGRAM_PATTERNS ==
    << [name |-> "post",       path |-> <<"/","p","/">>],
       [name |-> "reel",       path |-> <<"/","r","e","e","l","/">>],
       [name |-> "highlight",  path |-> <<"/","s","/","a","G","l","n","a","G","x","p","Z","2","h","0">>],
       [name |-> "highlights", path |-> <<"/","s","t","o","r","i","e","s","/","h","i","g","h","l","i","g","h","t","s","/">>],
       [name |-> "stories",    path |-> <<"/","s","t","o","r","i","e","s","/">>] >>

\* re.match(pattern, url): the pattern matches a prefix of url.  The two
\* optional groups match or are skipped, then the literals, then at least one
\* character outside /?#& (the rest of [^/?#&]+ and of url is free).
re_match(path, url) ==
    \E scheme \in {<<>>, <<"h","t","t","p",":","/","/">>, <<"h","t","t","p","s",":","/","/">>} :
      \E www \in {<<>>, <<"w","w","w",".">>} :
        LET pre == scheme \o www \o <<"i","n","s","t","a","g","r","a","m",".","c","o","m">> \o path
        IN  /\ StartsWith(url, pre)
            /\ Len(url) > Len(pre)
            /\ url[Len(pre) + 1] \notin {"/", "?", "#", "&"}

\* validate_instagram_url: the first pattern of the dict that matches sets
\* content_type; no match leaves the object alone.
\* a validation that resets content_type when no pattern matches
validate_instagram_url_forgets(obj, url) ==
    LET hits == {i \in 1..Len(INSTAGRAM_PATTERNS) : re_match(INSTAGRAM_PATTERNS[i].path, url)}
    IN  IF hits = {} THEN [self |-> [obj EXCEPT !.content_type = None], result |-> FALSE]
        ELSE [self |-> [obj EXCEPT !.content_type = INSTAGRAM_PATTERNS[Min(hits)].name],
              result |-> TRUE]

validate_instagram_url(obj, url) ==
    LET hits == {i \in 1..Len(INSTAGRAM_PATTERNS) :
                    re_match(INSTAGRAM_PATTERNS[i].path, url)}
    IN  IF hits = {}
        THEN [self |-> obj, result |-> FALSE]
        ELSE [self |-> [obj EXCEPT !.content_type = INSTAGRAM_PATTERNS[Min(hits)].name],
              result |-> TRUE]

\* urllib.parse.urlparse, for text that has no leading blank, no tab or line
\* break and no bracket: urlsplit takes the scheme, the netloc, the fragment
\* and the query off in this order, and _splitparams the params.

\* _splitparams: the params start at the first ";" of the last path segment
urlparse_params(scheme, netloc, url, query, fragment) ==
    LET slash == RFind(url, "/")
        semi  == Find(url, ";", IF slash > 0 THEN slash ELSE 1)
        split == semi > 0 /\ scheme \in {<<>>, <<"h","t","t","p">>, <<"h","t","t","p","s">>, <<"f","t","p">>}
    IN  [scheme |-> scheme, netloc |-> netloc,
         path   |-> IF split THEN SubSeq(url, 1, semi - 1) ELSE url,
         params |-> IF split THEN SubSeq(url, semi + 1, Len(url)) ELSE <<>>,
         query  |-> query, fragment |-> fragment]

urlparse_query(scheme, netloc, url, fragment) ==
    LET qm == Find(url, "?", 1)
    IN  urlparse_params(scheme, netloc,
                        IF qm > 0 THEN SubSeq(url, 1, qm - 1) ELSE url,
                        IF qm > 0 THEN SubSeq(url, qm + 1, Len(url)) ELSE <<>>,
                        fragment)

urlparse_fragment(scheme, netloc, url) ==
    LET hash == Find(url, "#", 1)
    IN  urlparse_query(scheme, netloc,
                       IF hash > 0 THEN SubSeq(url, 1, hash - 1) ELSE url,
                       IF hash > 0 THEN SubSeq(url, hash + 1, Len(url)) ELSE <<>>)

urlparse_netloc(scheme, url) ==
    LET hasNet == Len(url) >= 2 /\ SubSeq(url, 1, 2) = <<"/", "/">>
        delims == {i \in 3..Len(url) : url[i] \in {"/", "?", "#"}}
        delim  == IF delims = {} THEN Len(url) + 1 ELSE Min(delims)
    IN  urlparse_fragment(scheme,
                          IF hasNet THEN SubSeq(url, 3, delim - 1) ELSE <<>>,
                          IF hasNet THEN SubSeq(url, delim, Len(url)) ELSE url)

urlparse(url) ==
    LET colon == Find(url, ":", 1)
        hasScheme == /\ colon > 1
                     /\ url[1] \in Range(UpperCase) \cup Range(LowerCase)
                     /\ \A i \in 1..(colon - 1) :
                           url[i] \in Range(UpperCase) \cup Range(LowerCase)
                                        \cup Range(Digits) \cup {"+", "-", "."}
    IN  urlparse_netloc(IF hasScheme THEN lower(SubSeq(url, 1, colon - 1)) ELSE <<>>,
                        IF hasScheme THEN SubSeq(url, colon + 1, Len(url)) ELSE url)

\* clean_url
clean_url(url) ==
    LET parsed_url == urlparse(url)
        path == IF EndsWith(parsed_url.path, <<"/">>)
                THEN SubSeq(parsed_url.path, 1, Len(parsed_url.path) - 1)
                ELSE parsed_url.path
    IN  parsed_url.scheme \o <<":","/","/">> \o parsed_url.netloc \o path

\* ------------------------------------------------------------------ state

\* an empty dict
EmptyDict == [k \in {} |-> TRUE]

\* self.metadata before the first download
NoMetadata == <<>>

\* InstagramDownloader.__init__.  processed_metadata is the value of the dict
\* the attribute is bound to and pm_obj tells which dict object that is: the
\* number of dicts the attribute has been rebound to.  An assignment
\* `self.processed_metadata = {...}` binds a new object; an item assignment or
\* an append changes the value of the object that is bound.
InstagramDownloader(cookies_path, proxy) ==
    [cookies_path |-> cookies_path, proxy |-> proxy, temp_dir |-> None,
     content_type |-> None, metadata |-> NoMetadata, media_files |-> <<>>,
     processed_metadata |-> EmptyDict, pm_obj |-> 0]

\* what the caller holds of the records download_content has returned: none,
\* or the dict object of the last one and the value it had when returned
NotHeld == [any |-> FALSE, obj |-> 0, record |-> EmptyDict]

\* gallery_dl.config before any config.set
UnsetConfig ==
    [postprocessors |-> "unset", cookies |-> "unset", proxy |-> "unset",
     skip |-> "unset", base_directory |-> "unset"]

CookiePaths == {None, "instagram_cookies.txt"}

Proxies == {None, "127.0.0.1:10808"}

\* a downloader constructed with the defaults, in a process that has set no
\* configuration and made no directory
Init ==
    /\ self = InstagramDownloader(None, None)
    /\ fs = EmptyDict
    /\ config = UnsetConfig
    /\ made = 0
    /\ calls = 0
    /\ held = NotHeld
    /\ ret = [op |-> "__init__"]

\* a downloader constructed with or without a cookie file and a proxy
InitCall ==
    /\ \E c \in CookiePaths, p \in Proxies : self = InstagramDownloader(c, p)
    /\ fs = EmptyDict
    /\ config = UnsetConfig
    /\ made = 0
    /\ calls = 0
    /\ held = NotHeld
    /\ ret = [op |-> "__init__"]

\* ---------------------------------------------------------- normalization

\* dict.get(key) for a key whose values are text
get(d, k) == IF k \in DOMAIN d THEN d[k] ELSE NoneText

\* str(x) inside an f-string
str(x) == IF x = NoneText THEN <<"N","o","n","e">> ELSE x

\* d[k] = v on a dict
SetKey(d, k, v) == [x \in DOMAIN d \cup {k} |-> IF x = k THEN v ELSE d[x]]

\* s.split(c)[0]
split_first(s, c) ==
    IF Find(s, c, 1) = 0 THEN s ELSE SubSeq(s, 1, Find(s, c, 1) - 1)

\* the messages of the errors the field reads of the normalizer can raise
KeyError(k) == <<"'">> \o k \o <<"'">>

AttributeError(attr) == <<"'","N","o","n","e","T","y","p","e","'"," ","o","b","j","e","c","t"," ","h","a","s"," ","n","o"," ","a","t","t","r","i","b","u","t","e"," ","'">> \o attr \o <<"'">>

TypeErrorNotIterable == <<"'","N","o","n","e","T","y","p","e","'"," ","o","b","j","e","c","t"," ","i","s"," ","n","o","t"," ","i","t","e","r","a","b","l","e">>

IndexError == <<"l","i","s","t"," ","i","n","d","e","x"," ","o","u","t"," ","o","f"," ","r","a","n","g","e">>

\* the state of a normalizer run: the record built so far, and the message
\* of the error raised (NoneText while none is)
Going(pm) == [pm |-> pm, exc |-> NoneText]

Raised(pm, msg) == [pm |-> pm, exc |-> msg]

\* the {'username', 'user_id'} entry appended for an owner or a tagged user
user_entry(user) == [username |-> get(user, "username"), user_id |-> get(user, "id")]

\* _extract_media_file: item is a dict; additional_metadata is merged in
extract_media_file(item, media_type, filename, additional_metadata) ==
    LET result == [url |-> get(item, "url"), type |-> media_type, filename |-> filename]
    IN  [k \in DOMAIN result \cup DOMAIN additional_metadata |->
            IF k \in DOMAIN additional_metadata THEN additional_metadata[k]
            ELSE result[k]]

\* What one carousel item m of post adds to media_files: an entry, nothing,
\* or the error its file name raises (post['pk'] is read before m.get('id')).
carousel_item(post, m) ==
    LET videos == IF "video_versions" \in DOMAIN m THEN m.video_versions ELSE <<>>
        candidates == IF "image_versions2" \in DOMAIN m /\ "candidates" \in DOMAIN m.image_versions2
                      THEN m.image_versions2.candidates ELSE <<>>
        isVideo == "video_versions" \in DOMAIN m
        rendition == IF isVideo THEN videos ELSE candidates
        ext == IF isVideo THEN <<".","m","p","4">> ELSE <<".","j","p","g">>
    IN  IF rendition = <<>> THEN [kind |-> "skip"]
        ELSE IF "pk" \notin DOMAIN post THEN [kind |-> "raise", exc |-> KeyError(<<"p","k">>)]
        ELSE IF "id" \notin DOMAIN m THEN [kind |-> "raise", exc |-> AttributeError(<<"s","p","l","i","t">>)]
        ELSE [kind |-> "entry",
              entry |-> extract_media_file(
                  rendition[1],
                  IF isVideo THEN "video" ELSE "image",
                  str(post.pk) \o <<"_">> \o split_first(m.id, "_") \o ext,
                  IF isVideo THEN EmptyDict
                  ELSE [alt |-> get(m, "accessibility_caption")])]

\* What one story or highlight item adds to media_files: a video entry when
\* the item has video_versions, else an image entry, else nothing.
story_item(item) ==
    LET videos == IF "video_versions" \in DOMAIN item THEN item.video_versions ELSE <<>>
        candidates == IF "image_versions2" \in DOMAIN item /\ "candidates" \in DOMAIN item.image_versions2
                      THEN item.image_versions2.candidates ELSE <<>>
        isVideo == "video_versions" \in DOMAIN item
        rendition == IF isVideo THEN videos ELSE candidates
    IN  IF rendition = <<>> THEN [kind |-> "skip"]
        ELSE [kind |-> "entry",
              entry |-> extract_media_file(
                  rendition[1],
                  IF isVideo THEN "video" ELSE "image",
                  str(get(item, "pk")) \o (IF isVideo THEN <<".","m","p","4">> ELSE <<".","j","p","g">>),
                  IF isVideo
                  THEN [id |-> get(item, "pk"), taken_at |-> get(item, "taken_at")]
                  ELSE [id |-> get(item, "pk"), taken_at |-> get(item, "taken_at"),
                        alt |-> get(item, "accessibility_caption")])]

\* A loop over items that appends what each adds to pm.media_files, in the
\* order of the items, and stops at the first one that raises.  (What the
\* loop had appended before an error is never seen: download_content replaces
\* processed_metadata in its handler.)
append_media(pm, outcomes) ==
    LET raising == {i \in 1..Len(outcomes) : outcomes[i].kind = "raise"}
        entries == SelectSeq(outcomes, LAMBDA o : o.kind = "entry")
    IN  IF raising # {} THEN Raised(pm, outcomes[Min(raising)].exc)
        ELSE Going([pm EXCEPT !.media_files =
                        @ \o [i \in 1..Len(entries) |-> entries[i].entry]])

\* The body of the loop of _process_post_or_reel_metadata for one post, in
\* the order of its statements: the content type, the owners, the id,
\* shortcode and taken_at, the caption, the tagged users, the media.

\* pm[key] = d[field] when d has the field
SetIfPresent(pm, d, field, key) ==
    IF field \in DOMAIN d THEN SetKey(pm, key, d[field]) ELSE pm

post_owners(pm, post) ==
    [pm EXCEPT !.owners =
        @ \o (IF "owner" \in DOMAIN post THEN <<user_entry(post.owner)>> ELSE <<>>)
          \o (IF "coauthor_producers" \in DOMAIN post
              THEN [i \in 1..Len(post.coauthor_producers) |->
                       user_entry(post.coauthor_producers[i])]
              ELSE <<>>)]

post_caption(pm, post) ==
    IF "caption" \in DOMAIN post /\ "null" \notin DOMAIN post.caption
    THEN [pm EXCEPT !.caption =
             IF "text" \in DOMAIN post.caption THEN post.caption.text ELSE <<>>]
    ELSE pm

post_tagged(pm, post) ==
    IF "usertags" \notin DOMAIN post THEN Going(pm)
    ELSE IF "in" \notin DOMAIN post.usertags THEN Raised(pm, TypeErrorNotIterable)
    ELSE IF \E i \in 1..Len(post.usertags["in"]) : "user" \notin DOMAIN post.usertags["in"][i]
    THEN Raised(pm, AttributeError(<<"g","e","t">>))
    ELSE Going([pm EXCEPT !.tagged_users =
                    @ \o [i \in 1..Len(post.usertags["in"]) |->
                             user_entry(post.usertags["in"][i].user)]])

\* what a post without carousel_media adds for its own renditions of a kind
flat_media(post, renditions, media_type, ext) ==
    IF renditions = <<>> THEN <<>>
    ELSE IF "id" \notin DOMAIN post
    THEN <<[kind |-> "raise", exc |-> AttributeError(<<"s","p","l","i","t">>)]>>
    ELSE <<[kind |-> "entry",
            entry |-> extract_media_file(renditions[1], media_type,
                          split_first(post.id, "_") \o ext, EmptyDict)]>>

post_media(post) ==
    IF "carousel_media" \in DOMAIN post
    THEN [i \in 1..Len(post.carousel_media) |-> carousel_item(post, post.carousel_media[i])]
    ELSE flat_media(post,
                    IF "image_versions2" \in DOMAIN post
                       /\ "candidates" \in DOMAIN post.image_versions2
                    THEN post.image_versions2.candidates ELSE <<>>,
                    "image", <<".","j","p","g">>)
         \o flat_media(post,
                       IF "video_versions" \in DOMAIN post THEN post.video_versions ELSE <<>>,
                       "video", <<".","m","p","4">>)

post_then_media(tagged, post) ==
    IF tagged.exc # NoneText THEN tagged ELSE append_media(tagged.pm, post_media(post))

process_post(pm, post, content_type) ==
    post_then_media(
        post_tagged(
            post_caption(
                SetIfPresent(
                    SetIfPresent(
                        SetIfPresent(
                            post_owners(
                                [pm EXCEPT !.content_type =
                                    IF get(post, "product_type") = <<"c","l","i","p","s">>
                                    THEN "reel" ELSE content_type],
                                post),
                            post, "pk", "id"),
                        post, "code", "shortcode"),
                    post, "taken_at", "taken_at"),
                post),
            post),
        post)

\* the body of the loop of _process_story_metadata, for one record
process_story(pm, stories) ==
    LET pm1 == IF "user" \in DOMAIN stories
               THEN [pm EXCEPT !.owners = Append(@, user_entry(stories.user))] ELSE pm
    IN  IF "items" \in DOMAIN stories
        THEN append_media(pm1, [i \in 1..Len(stories.items) |-> story_item(stories.items[i])])
        ELSE Going(pm1)

\* the body of the loop of _process_highlight_metadata, for one record
process_highlight(pm, highlight) ==
    LET colon == Find(highlight.id, ":", 1)
        rest == SubSeq(highlight.id, colon + 1, Len(highlight.id))
        pm1 == IF "id" \in DOMAIN highlight /\ colon > 0
               THEN SetKey(pm, "id", split_first(rest, ":")) ELSE pm
        pm2 == IF "user" \in DOMAIN highlight
               THEN [pm1 EXCEPT !.owners = Append(@, user_entry(highlight.user))] ELSE pm1
        pm3 == IF "title" \in DOMAIN highlight
               THEN [pm2 EXCEPT !.caption = highlight.title] ELSE pm2
    IN  IF "id" \in DOMAIN highlight /\ colon = 0 THEN Raised(pm, IndexError)
        ELSE IF "items" \in DOMAIN highlight
        THEN append_media(pm3, [i \in 1..Len(highlight.items) |-> story_item(highlight.items[i])])
        ELSE Going(pm3)

\* the loops `for post in self.metadata` of the three normalizers: records
\* i.. of metadata, one after the other, stopping at the first error
RECURSIVE process_records(_, _, _, _)
process_records(acc, metadata, i, content_type) ==
    IF acc.exc # NoneText \/ i > Len(metadata) THEN acc
    ELSE process_records(
             IF content_type \in {"post", "reel"}
             THEN process_post(acc.pm, metadata[i], content_type)
             ELSE IF content_type \in {"highlight", "highlights"}
             THEN process_highlight(acc.pm, metadata[i])
             ELSE process_story(acc.pm, metadata[i]),
             metadata, i + 1, content_type)

\* a _process_metadata that clears and refills the dict it finds
process_metadata_in_place(obj, url) ==
    IF obj.metadata = <<>> THEN [self |-> obj, exc |-> NoneText]
    ELSE LET fresh == [content_type |-> obj.content_type, owners |-> <<>>,
                       original_url |-> url, cleaned_url |-> clean_url(url),
                       caption |-> NoneText, tagged_users |-> <<>>, media_files |-> <<>>]
             done == process_records(Going(fresh), obj.metadata, 1, obj.content_type)
         IN  [self |-> [obj EXCEPT !.processed_metadata = done.pm], exc |-> done.exc]

\* _process_metadata: nothing for empty metadata, else a fresh record filled
\* by the normalizer of the category.  obj.processed_metadata is the record
\* built; exc is the message of the error raised, NoneText for none.
process_metadata(obj, url) ==
    IF obj.metadata = <<>> THEN [self |-> obj, exc |-> NoneText]
    ELSE LET fresh == [content_type |-> obj.content_type, owners |-> <<>>,
                       original_url |-> url, cleaned_url |-> clean_url(url),
                       caption |-> NoneText, tagged_users |-> <<>>, media_files |-> <<>>]
             done == process_records(Going(fresh), obj.metadata, 1, obj.content_type)
         IN  [self |-> [obj EXCEPT !.processed_metadata = done.pm, !.pm_obj = @ + 1],
              exc |-> done.exc]

\* ------------------------------------------------------------- operations

\* The program's world is w = [self, fs, config, made]: the downloader object,
\* the directories that exist (directory |-> file name |-> content), the
\* process-wide gallery_dl configuration and the number of directories
\* mkdtemp has made.

\* the name tempfile.mkdtemp(prefix="instagram_") gives the i-th directory it
\* makes: a name not used before
DirName(i) == "instagram_" \o ToString(i)

\* create_temp_directory
create_temp_directory(w) ==
    LET d == DirName(w.made + 1)
    IN  [w EXCEPT !.self.temp_dir = d, !.fs = SetKey(w.fs, d, EmptyDict),
                  !.made = @ + 1]

\* a configuration that takes the cookie file without looking for it
configure_gallery_dl_any_cookie(w, cookie_exists) ==
    [w EXCEPT !.config =
        [@ EXCEPT !.postprocessors = "metadata",
                  !.cookies = IF w.self.cookies_path # None
                              THEN w.self.cookies_path ELSE "INSTAGRAM_HEADERS",
                  !.proxy = IF w.self.proxy # None THEN w.self.proxy ELSE @,
                  !.skip = "False"]]

\* _configure_gallery_dl; cookie_exists is os.path.exists(self.cookies_path)
configure_gallery_dl(w, cookie_exists) ==
    [w EXCEPT !.config =
        [@ EXCEPT !.postprocessors = "metadata",
                  !.cookies = IF w.self.cookies_path # None /\ cookie_exists
                              THEN w.self.cookies_path ELSE "INSTAGRAM_HEADERS",
                  !.proxy = IF w.self.proxy # None THEN w.self.proxy ELSE @,
                  !.skip = "False"]]

\* the test with every keyword compared in the case it is written in
is_private_error_as_written(error_message) ==
    \/ Contains(error_message, <<"4","0","0"," ","B","a","d"," ","R","e","q","u","e","s","t">>)
    \/ Contains(error_message, <<"4","0","1"," ","U","n","a","u","t","h","o","r","i","z","e","d">>)
    \/ Contains(error_message, <<"4","0","3"," ","F","o","r","b","i","d","d","e","n">>)
    \/ Contains(error_message, <<"n","o","t"," ","a","c","c","e","s","s","i","b","l","e">>)
    \/ Contains(error_message, <<"p","r","i","v","a","t","e">>)

\* the private-content test of download_content's handler
is_private_error(error_message) ==
    \/ Contains(error_message, <<"4","0","0"," ","B","a","d"," ","R","e","q","u","e","s","t">>)
    \/ Contains(error_message, <<"4","0","1"," ","U","n","a","u","t","h","o","r","i","z","e","d">>)
    \/ Contains(error_message, <<"4","0","3"," ","F","o","r","b","i","d","d","e","n">>)
    \/ Contains(lower(error_message), <<"n","o","t"," ","a","c","c","e","s","s","i","b","l","e">>)
    \/ Contains(lower(error_message), <<"p","r","i","v","a","t","e">>)

\* the record download_content builds for empty posts and in its handler
basic_metadata(obj, url, is_private, error) ==
    [content_type |-> obj.content_type, owners |-> <<>>, original_url |-> url,
     cleaned_url |-> clean_url(url), caption |-> NoneText, tagged_users |-> <<>>,
     media_files |-> <<>>, is_private |-> is_private, error |-> error]

\* _download_reel_thumbnail: one GET of the first image entry's url when
\* there is one; status 200 writes the file, every failure is logged only.
\* thumb is what the GET and the write do: a write that fails after open
\* leaves a part of the file.
download_reel_thumbnail(w, thumb) ==
    LET files == w.self.processed_metadata.media_files
        images == SelectSeq(files, LAMBDA f : f.type = "image")
        dir == w.self.temp_dir
    IN  IF images = <<>> THEN [w |-> w, gets |-> 0]
        ELSE [w |-> IF thumb = "200"
                    THEN [w EXCEPT !.fs[dir] = SetKey(@, images[1].filename, "thumbnail")]
                    ELSE IF thumb = "write_partial"
                    THEN [w EXCEPT !.fs[dir] = SetKey(@, images[1].filename, "partial")]
                    ELSE w,
              gets |-> 1]

\* _reformat_video on the file `name` of directory content `dir`; outcome is
\* what ffmpeg, os.remove and os.rename do.  A file that is not there makes
\* ffmpeg exit non-zero.  Every error is caught and logged.
reformat_video(dir, name, outcome) ==
    LET output_path == name \o <<".","c","o","n","v","e","r","t","e","d",".","m","p","4">>
    IN  IF name \notin DOMAIN dir THEN dir
        ELSE CASE outcome = "ok" ->
                    [n \in DOMAIN dir \ {output_path} |->
                        IF n = name THEN "transcoded" ELSE dir[n]]
               [] outcome = "exit_nonzero" -> dir
               [] outcome = "exit_nonzero_partial" -> SetKey(dir, output_path, "partial")
               [] outcome = "not_found" -> dir
               [] outcome = "remove_fails" -> SetKey(dir, output_path, "transcoded")
               [] outcome = "rename_fails" ->
                    [n \in (DOMAIN dir \ {name}) \cup {output_path} |->
                        IF n = output_path THEN "transcoded" ELSE dir[n]]

MediaSuffixes == {<<".","j","p","g">>, <<".","j","p","e","g">>, <<".","p","n","g">>, <<".","m","p","4">>}

\* the loop of _process_media_files over the file names os.walk listed, in
\* the order it listed them: acc is [w, ffmpeg_calls]
RECURSIVE walk_files(_, _, _, _)
walk_files(acc, listing, i, outcome) ==
    IF i > Len(listing) THEN acc
    ELSE LET file == listing[i]
             dir == acc.w.self.temp_dir
             isMedia == \E x \in MediaSuffixes : EndsWith(file, x)
             convert == EndsWith(file, <<".","m","p","4">>) /\ acc.w.self.content_type = "reel"
             w1 == IF convert
                   THEN [acc.w EXCEPT !.fs[dir] = reformat_video(@, file, outcome)]
                   ELSE acc.w
             w2 == [w1 EXCEPT !.self.media_files = Append(@, [dir |-> dir, file |-> file])]
         IN  walk_files(
                 IF isMedia
                 THEN [w |-> w2, ffmpeg_calls |->
                          IF convert THEN Append(acc.ffmpeg_calls, file) ELSE acc.ffmpeg_calls]
                 ELSE acc,
                 listing, i + 1, outcome)

\* the orders in which os.walk can list the files of a directory
Listings(names) ==
    {f \in [1..Cardinality(names) -> names] :
        \A i, j \in 1..Cardinality(names) : f[i] = f[j] => i = j}

\* _process_media_files: one result for each order os.walk can list in.  The
\* other files are skipped wherever they are listed, and are left out here.
process_media_files(w, outcome) ==
    { walk_files([w |-> w, ffmpeg_calls |-> <<>>], listing, 1, outcome) :
        listing \in Listings({n \in DOMAIN w.fs[w.self.temp_dir] :
                                 \E x \in MediaSuffixes : EndsWith(n, x)}) }

\* What a call returns to its caller: the world it leaves, whether it raised,
\* the error's message, the record returned, the steps it ran in order, the
\* files the transcoder was run on and the number of thumbnail GETs.
Outcome(w, raised, error, record, trace, ffmpeg_calls, gets) ==
    [w |-> w, raised |-> raised, error |-> error, record |-> record,
     trace |-> trace, ffmpeg_calls |-> ffmpeg_calls, gets |-> gets]

\* a handler that returns its record for every error
download_handler_returns(w, url, error_message, trace) ==
    LET record == basic_metadata(w.self, url, is_private_error(error_message),
                                 error_message)
    IN  Outcome([w EXCEPT !.self.processed_metadata = record, !.self.pm_obj = @ + 1],
                FALSE, error_message, record, trace, <<>>, 0)

\* the handler `except Exception as e` of download_content
download_handler(w, url, error_message, trace) ==
    LET record == basic_metadata(w.self, url, is_private_error(error_message),
                                 error_message)
        w1 == [w EXCEPT !.self.processed_metadata = record, !.self.pm_obj = @ + 1]
    IN  IF is_private_error(error_message)
        THEN Outcome(w1, FALSE, error_message, record, trace, <<>>, 0)
        ELSE Outcome(w1, TRUE, error_message, EmptyDict, trace, <<>>, 0)

\* an empty branch that returns a record that is not private
download_empty_public(w, url, trace) ==
    LET record == basic_metadata(w.self, url, FALSE, NoneText)
    IN  Outcome([w EXCEPT !.self.metadata = <<>>, !.self.processed_metadata = record,
                          !.self.pm_obj = @ + 1],
                FALSE, NoneText, record, trace, <<>>, 0)

\* the branch of download_content for an empty list of posts
download_empty(w, url, trace) ==
    LET error == <<"C","o","n","t","e","n","t"," ","i","s"," ","p","r","i","v","a","t","e"," ","o","r"," ","n","o","t"," ","a","c","c","e","s","s","i","b","l","e">>
        record == basic_metadata(w.self, url, TRUE, error)
        w1 == [w EXCEPT !.self.metadata =
                            <<[private |-> TRUE, post_url |-> url, error |-> error]>>,
                        !.self.processed_metadata = record, !.self.pm_obj = @ + 1]
    IN  Outcome(w1, FALSE, NoneText, record, trace, <<>>, 0)

\* download_content(url).  env is what the collaborators do in this call:
\* cookie_exists (os.path.exists of the cookie file), download (the files
\* job.run writes before it returns or raises), run_error and posts_error
\* (the message of the error job.run or extractor.posts raises, NoneText for
\* none), posts (the records extractor.posts yields), exception (the
\* extractor's `exception` attribute, NoneText when absent or None), thumb
\* and ffmpeg.  The result is the set of the possible outcomes, one for each
\* order os.walk can list the files in.  The statements are taken in their
\* order, each operator handing the world it leaves to the next.

\* config.set(('extractor',), 'base-directory', self.temp_dir)
set_base_directory(w) == [w EXCEPT !.config.base_directory = w.self.temp_dir]

\* the statements between the validation and the try block
download_setup(w, env) ==
    set_base_directory(
        configure_gallery_dl(
            IF w.self.temp_dir = None THEN create_temp_directory(w) ELSE w,
            env.cookie_exists))

\* job.run writes its files into the base directory
job_run(w, download) ==
    [w EXCEPT !.fs[w.self.temp_dir] =
        [n \in DOMAIN @ \cup DOMAIN download |->
            IF n \in DOMAIN download THEN download[n] ELSE @[n]]]

\* the steps a call has run when job.run returns or raises
download_trace(w) ==
    <<"validate">> \o (IF w.self.temp_dir = None THEN <<"mkdtemp">> ELSE <<>>)
        \o <<"configure", "run">>

\* a thumbnail step that fetches for every category
reel_thumbnail_always(w, thumb) == download_reel_thumbnail(w, thumb)

\* the thumbnail step, for a record normalized to a reel
reel_thumbnail(w, thumb) ==
    IF w.self.processed_metadata.content_type = "reel"
    THEN download_reel_thumbnail(w, thumb)
    ELSE [w |-> w, gets |-> 0]

\* the private flag set from the extractor's exception attribute
set_is_private(w, exception) ==
    [w EXCEPT !.self.processed_metadata =
        IF exception # NoneText
        THEN SetKey(SetKey(@, "is_private", TRUE), "error", exception)
        ELSE SetKey(@, "is_private", FALSE)]

\* the private flag, the walk over the files and the return
download_finish(thumb, env, trace) ==
    { Outcome(r.w, FALSE, NoneText, r.w.self.processed_metadata,
              trace \o (IF thumb.w.self.processed_metadata.content_type = "reel"
                        THEN <<"thumbnail">> ELSE <<>>) \o <<"walk">>,
              r.ffmpeg_calls, thumb.gets) :
        r \in process_media_files(set_is_private(thumb.w, env.exception), env.ffmpeg) }

\* what follows _process_metadata, which left norm
download_records(w, norm, url, env, trace) ==
    IF norm.exc # NoneText
    THEN {download_handler([w EXCEPT !.self = norm.self], url, norm.exc, trace)}
    ELSE download_finish(reel_thumbnail([w EXCEPT !.self = norm.self], env.thumb),
                         env, trace)

\* the try block
download_try(w, url, env, trace) ==
    IF env.run_error # NoneText
    THEN {download_handler(w, url, env.run_error, trace)}
    ELSE IF env.posts_error # NoneText
    THEN {download_handler(w, url, env.posts_error, trace \o <<"posts">>)}
    ELSE IF env.posts = <<>>
    THEN {download_empty(w, url, trace \o <<"posts">>)}
    ELSE download_records(w, process_metadata([w.self EXCEPT !.metadata = env.posts], url),
                          url, env, trace \o <<"posts", "normalize">>)

\* what follows the validation, which left valid
download_validated(w, valid, url, env) ==
    IF ~valid.result
    THEN {Outcome(w, TRUE, <<"I","n","v","a","l","i","d"," ","I","n","s","t","a","g","r","a","m"," ","U","R","L",":"," ">> \o url, EmptyDict,
                  <<"validate">>, <<>>, 0)}
    ELSE download_try(job_run(download_setup(w, env), env.download), url, env,
                      download_trace(w))

download_content(w, url, env) ==
    download_validated([w EXCEPT !.self = validate_instagram_url(w.self, url).self],
                       validate_instagram_url(w.self, url), url, env)

\* cleanup that forgets the directory without removing it
cleanup_keeps_directory(w) ==
    IF w.self.temp_dir # None /\ w.self.temp_dir \in DOMAIN w.fs
    THEN [w EXCEPT !.self.temp_dir = None]
    ELSE w

\* cleanup by rmdir, which removes an empty directory only
cleanup_rmdir(w) ==
    IF w.self.temp_dir # None /\ w.self.temp_dir \in DOMAIN w.fs
       /\ DOMAIN w.fs[w.self.temp_dir] = {}
    THEN [w EXCEPT !.fs = [d \in DOMAIN @ \ {w.self.temp_dir} |-> @[d]],
                   !.self.temp_dir = None]
    ELSE w

\* cleanup
cleanup(w) ==
    IF w.self.temp_dir # None /\ w.self.temp_dir \in DOMAIN w.fs
    THEN [w EXCEPT !.fs = [d \in DOMAIN @ \ {w.self.temp_dir} |-> @[d]],
                   !.self.temp_dir = None]
    ELSE w

\* ------------------------------------------------------------ URL inputs

\* The URLs the URL functions are applied to: scheme, www, host, path and
\* suffix in every combination, each with the category its path shape has
\* (None for no known shape), and some more written out.
UrlSchemes == {<<>>, <<"h","t","t","p",":","/","/">>, <<"h","t","t","p","s",":","/","/">>, <<"f","t","p",":","/","/">>}

UrlWww == {<<>>, <<"w","w","w",".">>}

UrlHosts == {<<"i","n","s","t","a","g","r","a","m",".","c","o","m">>, <<"e","x","a","m","p","l","e",".","c","o","m">>}

UrlPaths ==
    { [text |-> <<"/","p","/","A","B","C","1","2","3">>, shape |-> "post"],
      [text |-> <<"/","r","e","e","l","/","A","B","C","1","2","3">>, shape |-> "reel"],
      [text |-> <<"/","s","/","a","G","l","n","a","G","x","p","Z","2","h","0","O","j","E","3">>, shape |-> "highlight"],
      [text |-> <<"/","s","t","o","r","i","e","s","/","h","i","g","h","l","i","g","h","t","s","/","1","2","3">>, shape |-> "highlights"],
      [text |-> <<"/","s","t","o","r","i","e","s","/","u","s","e","r">>, shape |-> "stories"],
      [text |-> <<"/","s","t","o","r","i","e","s","/","h","i","g","h","l","i","g","h","t","s">>, shape |-> "stories"],
      [text |-> <<"/","u","s","e","r","n","a","m","e">>, shape |-> None],
      [text |-> <<"/","s","/","A","B","C">>, shape |-> None],
      [text |-> <<"/","p">>, shape |-> None],
      [text |-> <<"/","r","e","e","l","s","/","A","B","C","1","2","3">>, shape |-> None],
      [text |-> <<"/","u","s","e","r","n","a","m","e","/","p","/","A","B","C","1","2","3">>, shape |-> None] }

UrlSuffixes ==
    {<<>>, <<"/">>, <<"?","x","=","1">>, <<"/","?","x","=","1">>, <<"#","f">>, <<"/","/">>, <<"/","?","a","=","/">>}

UrlShape(scheme, host, path) ==
    IF host = <<"i","n","s","t","a","g","r","a","m",".","c","o","m">> /\ scheme # <<"f","t","p",":","/","/">> THEN path.shape ELSE None

BuiltUrls ==
    { [text  |-> s \o w \o h \o p.text \o x, shape |-> UrlShape(s, h, p)] :
        s \in UrlSchemes, w \in UrlWww, h \in UrlHosts, p \in UrlPaths,
        x \in UrlSuffixes }

MoreUrls ==
    { [text |-> <<"n","o","t"," ","a"," ","u","r","l">>, shape |-> None],
      [text |-> <<"h","t","t","p","s",":","/","/","w","w","w",".","e","x","a","m","p","l","e",".","c","o","m">>, shape |-> None],
      [text |-> <<"h","t","t","p","s",":","/","/","w","w","w",".","i","n","s","t","a","g","r","a","m",".","c","o","m","/","p","/",";","x">>, shape |-> "post"],
      [text |-> <<"h","t","t","p","s",":","/","/","w","w","w",".","i","n","s","t","a","g","r","a","m",".","c","o","m","/","s","t","o","r","i","e","s","/","h","i","g","h","l","i","g","h","t","s","/",";","x">>, shape |-> "highlights"],
      [text |-> <<"h","t","t","p","s",":","/","/","w","w","w",".","i","n","s","t","a","g","r","a","m",".","c","o","m","/","p","/","A",";","b","/","c">>, shape |-> "post"],
      [text |-> <<"h","t","t","p","s",":","/","/","w","w","w",".","i","n","s","t","a","g","r","a","m",".","c","o","m","/","p","/","A","/","c",";","b">>, shape |-> "post"] }

UrlInputs == BuiltUrls \cup MoreUrls

\* ----------------------------------------------------------- URL actions

\* a call of validate_instagram_url(url)
ValidateUrl(U) ==
    \E u \in U :
        LET r == validate_instagram_url(self, u.text)
        IN  /\ self' = r.self
            /\ ret' = [op |-> "validate_instagram_url", url |-> u.text,
                       shape |-> u.shape, result |-> r.result]
            /\ UNCHANGED <<fs, config, made, calls, held>>

\* a call of clean_url(url)
CleanUrl(U) ==
    \E u \in U :
        /\ ret' = [op |-> "clean_url", url |-> u.text, result |-> clean_url(u.text),
                   accepted |-> validate_instagram_url(self, u.text).result,
                   again |-> FALSE]
        /\ UNCHANGED <<self, fs, config, made, calls, held>>

\* clean_url applied to what the last clean_url call returned
CleanAgain ==
    /\ ret.op = "clean_url"
    /\ ~ret.again
    /\ ret' = [op |-> "clean_url", url |-> ret.result, result |-> clean_url(ret.result),
               accepted |-> ret.accepted, again |-> TRUE]
    /\ UNCHANGED <<self, fs, config, made, calls, held>>

\* the variants of an accepted URL that classification is said to ignore
UrlVariants(url) ==
    { [kind |-> "slash", text |-> url \o <<"/">>],
      [kind |-> "query", text |-> url \o <<"?","i","g","s","h","i","d","=","1">>],
      [kind |-> "clean", text |-> clean_url(url)] }

\* validate_instagram_url on a variant of the URL the last call accepted
ValidateVariant ==
    /\ ret.op = "validate_instagram_url"
    /\ "variant" \notin DOMAIN ret
    /\ ret.result
    /\ \E v \in UrlVariants(ret.url) :
        LET r == validate_instagram_url(
                     [self EXCEPT !.content_type = None], v.text)
        IN  /\ self' = r.self
            /\ ret' = [op |-> "validate_instagram_url", url |-> v.text,
                       shape |-> ret.shape, result |-> r.result,
                       variant |-> v.kind, of |-> ret.url,
                       of_type |-> self.content_type]
            /\ UNCHANGED <<fs, config, made, calls, held>>

\* the URL functions are applied to one drawn URL: the input is drawn first
InitUrl ==
    /\ self = InstagramDownloader(None, None)
    /\ fs = EmptyDict
    /\ config = UnsetConfig
    /\ made = 0
    /\ calls = 0
    /\ held = NotHeld
    /\ \E u \in UrlInputs : ret = [op |-> "input", url |-> u.text, shape |-> u.shape]

ValidateInput ==
    /\ ret.op = "input"
    /\ ValidateUrl({[text |-> ret.url, shape |-> ret.shape]})

CleanInput ==
    /\ ret.op = "input"
    /\ CleanUrl({[text |-> ret.url, shape |-> ret.shape]})

NextUrl ==
    \/ ValidateInput
    \/ CleanInput
    \/ CleanAgain
    \/ ValidateVariant

SpecUrl == InitUrl /\ [][NextUrl]_vars

\* ------------------------------------------------- inputs of a download

\* the URLs download_content is called with, each with the category of its
\* path shape (None for no known shape)
DownloadUrls ==
    { [text |-> <<"h","t","t","p","s",":","/","/","w","w","w",".","i","n","s","t","a","g","r","a","m",".","c","o","m","/","p","/","A","B","C","1","2","3","/","?","x","=","1">>, shape |-> "post"],
      [text |-> <<"h","t","t","p","s",":","/","/","i","n","s","t","a","g","r","a","m",".","c","o","m","/","r","e","e","l","/","A","B","C","1","2","3","/">>, shape |-> "reel"],
      [text |-> <<"h","t","t","p","s",":","/","/","w","w","w",".","i","n","s","t","a","g","r","a","m",".","c","o","m","/","s","/","a","G","l","n","a","G","x","p","Z","2","h","0","O","j","E","3">>, shape |-> "highlight"],
      [text |-> <<"h","t","t","p","s",":","/","/","w","w","w",".","i","n","s","t","a","g","r","a","m",".","c","o","m","/","s","t","o","r","i","e","s","/","u","s","e","r">>, shape |-> "stories"],
      [text |-> <<"h","t","t","p","s",":","/","/","w","w","w",".","i","n","s","t","a","g","r","a","m",".","c","o","m","/","u","s","e","r","n","a","m","e">>, shape |-> None] }

\* the messages of the errors the extraction raises, each with whether it is
\* one of a private-content error
ErrorMessages ==
    { [text |-> <<"4","0","0"," ","B","a","d"," ","R","e","q","u","e","s","t"," ","f","o","r"," ","'","h","t","t","p","s",":","/","/","w","w","w",".","i","n","s","t","a","g","r","a","m",".","c","o","m","/","a","p","i","/","v","1","/","m","e","d","i","a","/","1","/","i","n","f","o","/","'">>, private |-> TRUE],
      [text |-> <<"4","0","1"," ","U","n","a","u","t","h","o","r","i","z","e","d">>, private |-> TRUE],
      [text |-> <<"4","0","3"," ","F","o","r","b","i","d","d","e","n">>, private |-> TRUE],
      [text |-> <<"C","o","n","t","e","n","t"," ","i","s"," ","P","r","i","v","a","t","e">>, private |-> TRUE],
      [text |-> <<"P","a","g","e"," ","N","o","t"," ","A","c","c","e","s","s","i","b","l","e">>, private |-> TRUE],
      [text |-> <<"D","i","s","k"," ","f","u","l","l">>, private |-> FALSE],
      [text |-> <<"4","0","4"," ","N","o","t"," ","F","o","u","n","d">>, private |-> FALSE] }

\* raw records as the extractor yields them
PostImage ==
    [owner |-> [username |-> <<"t","e","s","t","_","u","s","e","r">>, id |-> <<"1","2","3","4","5">>],
     coauthor_producers |-> <<[username |-> <<"c","o","_","u","s","e","r">>, id |-> <<"2","2","2">>]>>,
     caption |-> [text |-> <<"T","e","s","t"," ","c","a","p","t","i","o","n">>],
     usertags |-> [in |-> <<[user |-> [username |-> <<"t","a","g","g","e","d","_","u","s","e","r">>, id |-> <<"6","7","8","9","0">>]]>>],
     image_versions2 |-> [candidates |-> <<[url |-> <<"i","1",".","j","p","g">>], [url |-> <<"i","1","s",".","j","p","g">>]>>],
     id |-> <<"p","o","s","t","1","2","3","_","4","5","6">>]

PostCarousel ==
    [owner |-> [username |-> <<"t","e","s","t","_","u","s","e","r">>, id |-> <<"1","2","3","4","5">>],
     caption |-> [null |-> TRUE],
     pk |-> <<"7","7">>, code |-> <<"A","B","C","1","2","3">>, taken_at |-> <<"1","7","0","0">>,
     carousel_media |->
        << [id |-> <<"1","_","9">>, video_versions |-> <<[url |-> <<"v","1",".","m","p","4">>]>>,
            image_versions2 |-> [candidates |-> <<[url |-> <<"p","1",".","j","p","g">>]>>]],
           [id |-> <<"2","_","9">>, accessibility_caption |-> <<"a","l","t">>,
            image_versions2 |-> [candidates |-> <<[url |-> <<"i","2",".","j","p","g">>]>>]] >>]

PostReel ==
    [owner |-> [username |-> <<"t","e","s","t","_","u","s","e","r">>, id |-> <<"1","2","3","4","5">>],
     product_type |-> <<"c","l","i","p","s">>, pk |-> <<"5">>, id |-> <<"5","_","9">>,
     video_versions |-> <<[url |-> <<"v","5",".","m","p","4">>]>>,
     image_versions2 |-> [candidates |-> <<[url |-> <<"i","5",".","j","p","g">>]>>]]

\* a reel of several images, and a reel with no image
ReelCarousel ==
    [owner |-> [username |-> <<"t","e","s","t","_","u","s","e","r">>, id |-> <<"1","2","3","4","5">>],
     product_type |-> <<"c","l","i","p","s">>, pk |-> <<"6">>,
     carousel_media |->
        << [id |-> <<"1","_","9">>, video_versions |-> <<[url |-> <<"v","6",".","m","p","4">>]>>],
           [id |-> <<"2","_","9">>, image_versions2 |-> [candidates |-> <<[url |-> <<"a","6",".","j","p","g">>]>>]],
           [id |-> <<"3","_","9">>, image_versions2 |-> [candidates |-> <<[url |-> <<"b","6",".","j","p","g">>]>>]] >>]

ReelVideoOnly ==
    [owner |-> [username |-> <<"t","e","s","t","_","u","s","e","r">>, id |-> <<"1","2","3","4","5">>],
     product_type |-> <<"c","l","i","p","s">>, pk |-> <<"7">>, id |-> <<"7","_","9">>,
     video_versions |-> <<[url |-> <<"v","7",".","m","p","4">>]>>]

PostNoPk ==
    [owner |-> [username |-> <<"t","e","s","t","_","u","s","e","r">>, id |-> <<"1","2","3","4","5">>],
     carousel_media |->
        << [id |-> <<"1","_","9">>, image_versions2 |-> [candidates |-> <<[url |-> <<"i","1",".","j","p","g">>]>>]] >>]

Highlight ==
    [user |-> [username |-> <<"t","e","s","t","_","u","s","e","r">>, id |-> <<"1","2","3","4","5">>],
     title |-> <<"T","e","s","t"," ","c","a","p","t","i","o","n">>, id |-> <<"h","i","g","h","l","i","g","h","t",":","1","2","3","4","5">>,
     items |-> << [pk |-> <<"i","t","e","m","1","2","3">>,
                   image_versions2 |-> [candidates |-> <<[url |-> <<"i","3",".","j","p","g">>]>>]],
                  [pk |-> <<"i","t","e","m","1","2","4">>, taken_at |-> <<"1","7","0","1">>,
                   video_versions |-> <<[url |-> <<"v","4",".","m","p","4">>]>>] >>]

HighlightBadId ==
    [user |-> [username |-> <<"t","e","s","t","_","u","s","e","r">>, id |-> <<"1","2","3","4","5">>], id |-> <<"1","2","3","4","5">>]

Story ==
    [user |-> [username |-> <<"t","e","s","t","_","u","s","e","r">>, id |-> <<"1","2","3","4","5">>],
     items |-> << [pk |-> <<"i","t","e","m","9">>,
                   image_versions2 |-> [candidates |-> <<[url |-> <<"i","9",".","j","p","g">>]>>]] >>]

\* the non-empty lists of records the extractor yields for a URL of a category
RawLists(category) ==
    CASE category = "post" -> {<<PostImage>>, <<PostCarousel>>, <<PostReel>>, <<PostNoPk>>}
      [] category = "reel" -> {<<PostReel>>, <<ReelCarousel>>, <<ReelVideoOnly>>}
      [] category \in {"highlight", "highlights"} -> {<<Highlight>>, <<HighlightBadId>>}
      [] category = "stories" -> {<<Story>>}
      [] OTHER -> {}

\* the files job.run writes into the working directory
Downloads ==
    { EmptyDict,
      [n \in {<<"5",".","m","p","4">>, <<"5",".","m","p","4",".","j","s","o","n">>} |-> "original"] }

ThumbOutcomes == {"200", "404", "request_error", "write_error", "write_partial"}

FfmpegOutcomes ==
    {"ok", "exit_nonzero", "exit_nonzero_partial", "not_found", "remove_fails",
     "rename_fails"}

\* Whether a list of raw records is normalized to a reel, and so whether the
\* thumbnail outcome can matter
HasClips(posts) == \E i \in 1..Len(posts) : get(posts[i], "product_type") = <<"c","l","i","p","s">>

\* What the collaborators can do in one call on a URL of a category by a
\* downloader with the given cookies_path.  The cases are: job.run raises
\* (after it has written files), extractor.posts raises, it yields nothing,
\* and it yields records; with records, either nothing else happens, or the
\* extractor carries an exception, or the thumbnail GET fails, or the
\* transcoder does.  An outcome the call cannot reach is kept at one value.
Envs(category, cookies_path) ==
    LET quiet == [cookie_exists |-> TRUE, download |-> EmptyDict, run_error |-> NoneText,
                  posts_error |-> NoneText, posts |-> <<>>, exception |-> NoneText,
                  thumb |-> "200", ffmpeg |-> "ok"]
        full == CHOOSE d \in Downloads : d # EmptyDict
        exists == IF cookies_path = None THEN {TRUE} ELSE BOOLEAN
    IN  IF category = None THEN {quiet}
        ELSE UNION {
          { [quiet EXCEPT !.download = full, !.run_error = m.text] : m \in ErrorMessages },
          { [quiet EXCEPT !.posts_error = m.text] :
              m \in {e \in ErrorMessages : e.text \in {<<"4","0","3"," ","F","o","r","b","i","d","d","e","n">>, <<"D","i","s","k"," ","f","u","l","l">>}} },
          { [quiet EXCEPT !.cookie_exists = c, !.exception = x] :
              c \in exists, x \in {NoneText, <<"C","o","n","t","e","n","t"," ","i","s"," ","p","r","i","v","a","t","e">>} },
          { [quiet EXCEPT !.download = d, !.posts = r] :
              d \in Downloads, r \in RawLists(category) },
          { [quiet EXCEPT !.posts = r, !.exception = <<"C","o","n","t","e","n","t"," ","i","s"," ","p","r","i","v","a","t","e">>] :
              r \in RawLists(category) },
          { [quiet EXCEPT !.download = full, !.posts = r, !.thumb = th] :
              r \in {x \in RawLists(category) : HasClips(x)}, th \in ThumbOutcomes },
          { [quiet EXCEPT !.download = full, !.posts = r, !.ffmpeg = ff] :
              r \in {x \in RawLists(category) : category = "reel"}, ff \in FfmpegOutcomes } }

\* the record lists and the cases of Envs that the calls of a longer life of
\* a downloader are drawn from: one private and one other error of job.run,
\* no record, and records that job.run has written files for
FewLists == {<<PostImage>>, <<PostNoPk>>, <<PostReel>>, <<Highlight>>, <<Story>>}

FewEnvs(category, cookies_path) ==
    { e \in Envs(category, cookies_path) :
        /\ e.run_error \in {NoneText, <<"4","0","3"," ","F","o","r","b","i","d","d","e","n">>, <<"D","i","s","k"," ","f","u","l","l">>}
        /\ e.posts_error = NoneText
        /\ e.thumb = "200" /\ e.ffmpeg = "ok" /\ e.cookie_exists
        /\ e.posts \in FewLists \cup {<<>>}
        /\ e.exception = NoneText
        /\ (e.posts # <<>> /\ e.exception = NoneText) => e.download # EmptyDict }

\* where a call of download_content ended
Stage(url, env, out) ==
    IF out.trace = <<"validate">> THEN "invalid"
    ELSE IF env.run_error # NoneText THEN "run"
    ELSE IF env.posts_error # NoneText THEN "posts"
    ELSE IF env.posts = <<>> THEN "empty"
    ELSE IF "walk" \notin Range(out.trace) THEN "normalize"
    ELSE "done"

\* ---------------------------------------------------------------- actions

MaxDirs == 2

MaxCalls == 2

World == [self |-> self, fs |-> fs, config |-> config, made |-> made]

Running == ret.op # "main"

\* a call of create_temp_directory()
CreateTempDirectory ==
    /\ Running
    /\ made < MaxDirs
    /\ LET w == create_temp_directory(World)
       IN  /\ self' = w.self /\ fs' = w.fs /\ config' = w.config /\ made' = w.made
           /\ ret' = [op |-> "create_temp_directory", dir |-> w.self.temp_dir]
           /\ UNCHANGED <<calls, held>>

\* a call of download_content(url), with what the collaborators do drawn from
\* FewEnvs or from Envs
Download(few) ==
    /\ Running
    /\ self.temp_dir # None \/ made < MaxDirs
    /\ \E u \in DownloadUrls :
         \E env \in (IF few THEN FewEnvs(u.shape, self.cookies_path)
                      ELSE Envs(u.shape, self.cookies_path)) :
           \E out \in download_content(World, u.text, env) :
             /\ self' = out.w.self /\ fs' = out.w.fs /\ config' = out.w.config
             /\ made' = out.w.made
             /\ calls' = calls + 1
             /\ held' = IF out.raised THEN held
                        ELSE [any |-> TRUE, obj |-> out.w.self.pm_obj,
                              record |-> out.record]
             /\ ret' = [op |-> "download_content", url |-> u.text, shape |-> u.shape,
                        stage |-> Stage(u.text, env, out), raised |-> out.raised,
                        error |-> out.error, record |-> out.record,
                        trace |-> out.trace, ffmpeg_calls |-> out.ffmpeg_calls,
                        gets |-> out.gets, extracted |-> Len(env.posts),
                        exception |-> env.exception, env |-> env]

\* a call of cleanup(); ret keeps the working directory it was called with,
\* the files that were in it and how the call before it ended
Cleanup ==
    /\ Running
    /\ LET w == cleanup(World)
           dir == self.temp_dir
       IN  /\ self' = w.self /\ fs' = w.fs /\ config' = w.config /\ made' = w.made
           /\ ret' = [op |-> "cleanup", dir |-> dir,
                      files |-> IF dir \in DOMAIN fs THEN DOMAIN fs[dir] ELSE {},
                      after |-> IF ret.op = "download_content" THEN ret.stage ELSE ret.op]
           /\ UNCHANGED <<calls, held>>

\* what main does with the outcome of download_content before its finally
\* block: the handler of `except Exception`, the private notice, or the
\* display, where os.path.getsize raises for a listed file that is not there
main_path(out) ==
    IF out.raised THEN "exception"
    ELSE IF out.record.is_private THEN "private"
    ELSE IF \E i \in 1..Len(out.w.self.media_files) :
              LET f == out.w.self.media_files[i]
              IN  f.dir \notin DOMAIN out.w.fs \/ f.file \notin DOMAIN out.w.fs[f.dir]
    THEN "display_error"
    ELSE "success"

\* main of example.py on a downloader it has just constructed: validate, then
\* download_content and the display, and cleanup in the finally block.  ret
\* keeps the working directory and its files as cleanup found them.
Main ==
    /\ ret.op = "__init__"
    /\ UNCHANGED held
    /\ \E u \in DownloadUrls :
         \E env \in Envs(u.shape, self.cookies_path) :
           LET valid == validate_instagram_url(self, u.text)
               w0 == [World EXCEPT !.self = valid.self]
           IN  \E out \in (IF valid.result THEN download_content(w0, u.text, env)
                           ELSE {Outcome(w0, FALSE, NoneText, EmptyDict, <<>>, <<>>, 0)}) :
                 LET dir == out.w.self.temp_dir
                     w == cleanup(out.w)
                     path == IF valid.result THEN main_path(out) ELSE "invalid"
                 IN  /\ self' = w.self /\ fs' = w.fs /\ config' = w.config
                     /\ made' = w.made
                     /\ calls' = IF valid.result THEN calls + 1 ELSE calls
                     /\ ret' = [op |-> "main", url |-> u.text, shape |-> u.shape,
                                path |-> path,
                                exit |-> IF path \in {"success", "private"} THEN 0 ELSE 1,
                                dir |-> dir,
                                files |-> IF dir \in DOMAIN out.w.fs
                                          THEN DOMAIN out.w.fs[dir] ELSE {}]

\* one of the calls of a downloader's life
DownloadContent ==
    /\ calls < MaxCalls
    /\ Download(TRUE)

\* the first call of a downloader
FirstDownloadContent ==
    /\ calls = 0
    /\ Download(FALSE)

\* the life of a downloader: calls of its methods in any order
Next ==
    \/ CreateTempDirectory
    \/ DownloadContent
    \/ Cleanup

Spec == Init /\ [][Next]_vars

\* one call of download_content with everything its collaborators can do,
\* by a caller of the methods or by main
NextCall ==
    \/ CreateTempDirectory
    \/ FirstDownloadContent
    \/ Cleanup
    \/ Main

SpecCall == InitCall /\ [][NextCall]_vars

\* the process constructs another downloader: the configuration of
\* gallery_dl and the directories are the process's and stay as they are
NewDownloader ==
    /\ ret.op # "__init__"
    /\ calls < MaxCalls
    /\ \E c \in CookiePaths, p \in Proxies : self' = InstagramDownloader(c, p)
    /\ ret' = [op |-> "__init__"]
    /\ held' = NotHeld
    /\ UNCHANGED <<fs, config, made, calls>>

\* the downloaders of one process, one after another
NextProc ==
    \/ CreateTempDirectory
    \/ DownloadContent
    \/ Cleanup
    \/ NewDownloader

SpecProc == InitCall /\ [][NextProc]_vars

\* -------------------------------------------- inputs of a normalization

\* a post record with every field the normalizer reads
FullPost ==
    [owner |-> [username |-> <<"t","e","s","t","_","u","s","e","r">>, id |-> <<"1","2","3","4","5">>],
     coauthor_producers |-> <<[username |-> <<"c","o","_","u","s","e","r">>, id |-> <<"2","2","2">>],
                              [username |-> <<"c","o","_","t","w","o">>, id |-> <<"3","3","3">>]>>,
     caption |-> [text |-> <<"T","e","s","t"," ","c","a","p","t","i","o","n">>],
     usertags |-> [in |-> <<[user |-> [username |-> <<"t","a","g","g","e","d","_","u","s","e","r">>, id |-> <<"6","7","8","9","0">>]],
                            [user |-> [username |-> <<"t","a","g","g","e","d","_","t","w","o">>, id |-> <<"6","7","8","9","1">>]]>>],
     image_versions2 |-> [candidates |-> <<[url |-> <<"i","1",".","j","p","g">>], [url |-> <<"i","1","s",".","j","p","g">>]>>],
     video_versions |-> <<[url |-> <<"v","1",".","m","p","4">>], [url |-> <<"v","1","s",".","m","p","4">>]>>,
     pk |-> <<"7","7">>,
     id |-> <<"p","o","s","t","1","2","3","_","4","5","6">>,
     product_type |-> <<"c","l","i","p","s">>,
     carousel_media |->
        << [id |-> <<"1","_","9">>, video_versions |-> <<[url |-> <<"c","1",".","m","p","4">>], [url |-> <<"c","1","s",".","m","p","4">>]>>,
            image_versions2 |-> [candidates |-> <<[url |-> <<"p","1",".","j","p","g">>]>>]],
           [id |-> <<"2","_","9">>, accessibility_caption |-> <<"a","l","t">>,
            image_versions2 |-> [candidates |-> <<[url |-> <<"c","2",".","j","p","g">>]>>]] >>]

\* d restricted to the fields of S
Restrict(d, S) == [k \in S |-> d[k]]

\* the post records that have any subset of the fields
PostRecords == {Restrict(FullPost, S) : S \in SUBSET DOMAIN FullPost}

\* post records with a field that is there but empty, null or incomplete
PostSecond ==
    [owner |-> [username |-> <<"o","t","h","e","r","_","u","s","e","r">>, id |-> <<"5","4","3","2","1">>],
     caption |-> [text |-> <<"S","e","c","o","n","d"," ","c","a","p","t","i","o","n">>],
     image_versions2 |-> [candidates |-> <<[url |-> <<"i","2",".","j","p","g">>]>>],
     id |-> <<"p","o","s","t","7","8","9","_","1">>, pk |-> <<"7","8">>]

MorePosts ==
    { [FullPost EXCEPT !.caption = [null |-> TRUE]],
      [FullPost EXCEPT !.caption = [pk |-> <<"1">>]],
      Restrict([FullPost EXCEPT !.usertags = [out |-> <<>>]], {"owner", "usertags", "id"}),
      Restrict([FullPost EXCEPT !.usertags = [in |-> <<[position |-> <<"0">>]>>]],
               {"owner", "usertags", "id"}),
      Restrict([FullPost EXCEPT !.video_versions = <<>>],
               {"owner", "video_versions", "image_versions2", "id"}),
      Restrict([FullPost EXCEPT !.image_versions2 = [candidates |-> <<>>]],
               {"owner", "image_versions2", "id"}),
      Restrict([FullPost EXCEPT !.carousel_media =
                   << [id |-> <<"1","_","9">>, video_versions |-> <<>>,
                       image_versions2 |-> [candidates |-> <<[url |-> <<"p","1",".","j","p","g">>]>>]],
                      [id |-> <<"2","_","9">>,
                       image_versions2 |-> [candidates |-> <<[url |-> <<"c","2",".","j","p","g">>]>>]] >>],
               {"owner", "pk", "carousel_media"}),
      Restrict([FullPost EXCEPT !.carousel_media =
                   << [image_versions2 |-> [candidates |-> <<[url |-> <<"p","1",".","j","p","g">>]>>]] >>],
               {"owner", "pk", "carousel_media"}),
      Restrict([FullPost EXCEPT !.carousel_media =
                   << [id |-> <<"1","_","9">>,
                       image_versions2 |-> [candidates |-> <<[url |-> <<"p","1",".","j","p","g">>]>>]],
                      [id |-> <<"1","_","8">>,
                       image_versions2 |-> [candidates |-> <<[url |-> <<"c","2",".","j","p","g">>]>>]] >>],
               {"owner", "pk", "carousel_media"}),
      PostImage, PostCarousel, PostReel, PostNoPk, PostSecond }

\* a highlight record and a stories record with every field, their items
\* with and without each rendition list
FullItems ==
    << [pk |-> <<"i","t","e","m","1">>, taken_at |-> <<"1","7","0","1">>,
        video_versions |-> <<[url |-> <<"s","1",".","m","p","4">>], [url |-> <<"s","1","s",".","m","p","4">>]>>,
        image_versions2 |-> [candidates |-> <<[url |-> <<"s","1",".","j","p","g">>]>>]],
       [pk |-> <<"i","t","e","m","2">>, accessibility_caption |-> <<"a","l","t">>,
        image_versions2 |-> [candidates |-> <<[url |-> <<"s","2",".","j","p","g">>], [url |-> <<"s","2","s",".","j","p","g">>]>>]],
       [pk |-> <<"i","t","e","m","3">>, video_versions |-> <<>>,
        image_versions2 |-> [candidates |-> <<[url |-> <<"s","3",".","j","p","g">>]>>]],
       [taken_at |-> <<"1","7","0","2">>, video_versions |-> <<[url |-> <<"s","4",".","m","p","4">>]>>],
       [pk |-> <<"i","t","e","m","5">>] >>

FullHighlight ==
    [user |-> [username |-> <<"t","e","s","t","_","u","s","e","r">>, id |-> <<"1","2","3","4","5">>],
     title |-> <<"T","e","s","t"," ","c","a","p","t","i","o","n">>, id |-> <<"h","i","g","h","l","i","g","h","t",":","1","2","3","4","5">>, items |-> FullItems]

HighlightSecond ==
    [user |-> [username |-> <<"o","t","h","e","r","_","u","s","e","r">>, id |-> <<"5","4","3","2","1">>],
     title |-> <<"S","e","c","o","n","d"," ","c","a","p","t","i","o","n">>, id |-> <<"h","i","g","h","l","i","g","h","t",":","6","7","8">>]

HighlightRecords ==
    {Restrict(FullHighlight, S) : S \in SUBSET DOMAIN FullHighlight}
        \cup {Highlight, HighlightBadId, HighlightSecond}

FullStory == [user |-> [username |-> <<"t","e","s","t","_","u","s","e","r">>, id |-> <<"1","2","3","4","5">>], items |-> FullItems]

StoryRecords == {Restrict(FullStory, S) : S \in SUBSET DOMAIN FullStory} \cup {Story}

\* the lists of one record, and of two records out of a few
ListsOf(records, few) ==
    {<<r>> : r \in records} \cup {<<a, b>> : a \in few, b \in few}

\* The inputs of a normalization: the category validate_instagram_url has
\* recorded and the records extractor.posts yielded.  The normalizer of a
\* category is given the records written for it.
NormInputs ==
    UNION {
      { [category |-> c, posts |-> l] :
          c \in {"post", "reel"},
          l \in ListsOf(PostRecords \cup MorePosts,
                        {PostImage, PostReel, PostSecond, PostNoPk}) },
      { [category |-> c, posts |-> l] :
          c \in {"highlight", "highlights"},
          l \in ListsOf(HighlightRecords, {Highlight, HighlightSecond}) },
      { [category |-> "stories", posts |-> l] :
          l \in ListsOf(StoryRecords, {Story, FullStory}) } }

\* ------------------------------------------------ normalization actions

\* the input is drawn first: the records are there, the category is recorded
InitNorm ==
    /\ self = InstagramDownloader(None, None)
    /\ fs = EmptyDict
    /\ config = UnsetConfig
    /\ made = 0
    /\ calls = 0
    /\ held = NotHeld
    /\ \E i \in NormInputs :
         ret = [op |-> "posts", category |-> i.category, posts |-> i.posts]

\* self.metadata = posts and _process_metadata(url), after the validation
\* has recorded the category
ProcessMetadata ==
    /\ ret.op = "posts"
    /\ LET r == process_metadata([self EXCEPT !.content_type = ret.category,
                                              !.metadata = ret.posts],
                                 <<"h","t","t","p","s",":","/","/","w","w","w",".","i","n","s","t","a","g","r","a","m",".","c","o","m","/","p","/","A","B","C","1","2","3","/">>)
       IN  /\ self' = r.self
           /\ ret' = [op |-> "_process_metadata", category |-> ret.category,
                      posts |-> ret.posts, exc |-> r.exc,
                      pm |-> r.self.processed_metadata]
    /\ UNCHANGED <<fs, config, made, calls, held>>

NextNorm == ProcessMetadata

SpecNorm == InitNorm /\ [][NextNorm]_vars

\* ---------------------------------------------------- claims on the URLs

\* C8: validate_instagram_url returns true exactly for the URLs of a known
\* path shape and records that shape's category; in particular a URL of the
\* highlights shape is recorded as highlights, never as stories.
C8_ClassifiesKnownShapes ==
    (ret.op = "validate_instagram_url" /\ "variant" \notin DOMAIN ret) =>
        /\ ret.result <=> (ret.shape # None)
        /\ ret.result => self.content_type = ret.shape
        /\ ~ret.result => self.content_type = None

\* a URL of the highlights shape has been validated and recorded as highlights
C8_Witness ==
    /\ ret.op = "validate_instagram_url"
    /\ "variant" \notin DOMAIN ret
    /\ ret.shape = "highlights"
    /\ ret.result
    /\ self.content_type = "highlights"

\* C9: clean_url is idempotent on every URL validate_instagram_url accepts:
\* cleaning what clean_url returned gives the same text back.
C9_CleanUrlIdempotent ==
    (ret.op = "clean_url" /\ ret.again /\ ret.accepted) => ret.result = ret.url

\* C10: a trailing slash, a query string or clean_url applied to an accepted
\* URL gives a URL that is accepted again, in the same category.
C10_VariantsKeepCategory ==
    (ret.op = "validate_instagram_url" /\ "variant" \in DOMAIN ret) =>
        ret.result /\ self.content_type = ret.of_type

\* ------------------------------------------------ claims on the download

\* the record the handler and the empty branch build, but for its error
IsBareRecord(record, content_type, url) ==
    /\ record.is_private
    /\ record.owners = <<>>
    /\ record.tagged_users = <<>>
    /\ record.media_files = <<>>
    /\ record.caption = NoneText
    /\ record.content_type = content_type
    /\ record.original_url = url
    /\ record.cleaned_url \notin {NoneText, <<>>}

\* the messages of ErrorMessages that are of a private-content error
PrivateMessages == {m.text : m \in {e \in ErrorMessages : e.private}}

C2_OtherErrorsPropagate ==
    (ret.op = "download_content"
        /\ \/ ret.stage \in {"run", "posts"} /\ ret.error \notin PrivateMessages
           \/ ret.stage = "normalize") =>
        /\ ret.raised
        /\ ret.record = EmptyDict
        /\ ret.error # NoneText

\* the normalization raised on extracted records and the call raised
C2_Witness ==
    /\ ret.op = "download_content"
    /\ ret.stage = "normalize"
    /\ ret.extracted > 0
    /\ ret.raised

C4_InvalidUrlChangesNothing ==
    [][(ret'.op = "download_content" /\ ret'.stage = "invalid") =>
          /\ ret'.raised
          /\ ret'.trace = <<"validate">>
          /\ self' = self
          /\ fs' = fs
          /\ config' = config
          /\ made' = made]_vars

\* an invalid URL was refused by a downloader that had downloaded before
C4_Witness ==
    /\ ret.op = "download_content"
    /\ ret.stage = "invalid"
    /\ ret.raised
    /\ self.content_type # None
    /\ self.temp_dir # None
    /\ self.processed_metadata # EmptyDict

\* C5: a record download_content returns with is_private has empty owners,
\* tagged_users and media_files and a null caption, on every path that sets
\* is_private.
C5_PrivateRecordIsBare ==
    (ret.op = "download_content" /\ ~ret.raised /\ ret.record.is_private) =>
        /\ ret.record.owners = <<>>
        /\ ret.record.tagged_users = <<>>
        /\ ret.record.media_files = <<>>
        /\ ret.record.caption = NoneText

\* C6: when cleanup returns, the working directory is gone and temp_dir is
\* None, whatever was called before; a cleanup that follows a cleanup
\* changes nothing.
C6_CleanupRemovesAndRepeats ==
    [][ret'.op = "cleanup" =>
          /\ self'.temp_dir = None
          /\ self.temp_dir \notin DOMAIN fs'
          /\ ret.op = "cleanup" =>
                (self' = self /\ fs' = fs /\ config' = config /\ made' = made)]_vars

\* cleanup was called again after a cleanup that had removed a directory
C6_Witness ==
    /\ ret.op = "cleanup"
    /\ ret.after = "cleanup"
    /\ ret.dir = None
    /\ made > 0
    /\ self.temp_dir = None

OnePost == ret.op = "_process_metadata" /\ ret.category \in {"post", "reel"}
              /\ Len(ret.posts) = 1

\* the entry of owners or tagged_users that stands for a raw user
UserOf(u) == [username |-> u.username, user_id |-> u.id]

\* the primary owner of a post record followed by its co-authors
OwnersOf(post) ==
    (IF "owner" \in DOMAIN post THEN <<UserOf(post.owner)>> ELSE <<>>)
      \o (IF "coauthor_producers" \in DOMAIN post
            THEN [i \in 1..Len(post.coauthor_producers) |->
                      UserOf(post.coauthor_producers[i])]
            ELSE <<>>)

\* a post record with one non-empty image candidate list and no video
OneImage(post) ==
    /\ "image_versions2" \in DOMAIN post
    /\ post.image_versions2.candidates # <<>>
    /\ {"video_versions", "carousel_media"} \cap DOMAIN post = {}

\* C11: normalizing one post record gives owners = the primary owner followed
\* by the co-authors in listed order, caption = the caption text,
\* tagged_users = one entry per usertags.in element in listed order, and for
\* a record with one image candidate list and no video one media_files entry
\* of type image.
C11_OnePostRecord ==
    OnePost =>
      LET post == ret.posts[1]
          tags == IF "usertags" \in DOMAIN post /\ "in" \in DOMAIN post.usertags
                    THEN post.usertags["in"] ELSE <<>>
      IN  /\ ret.pm.owners = OwnersOf(post)
          /\ ("caption" \in DOMAIN post /\ "text" \in DOMAIN post.caption) =>
                ret.pm.caption = post.caption.text
          /\ Len(ret.pm.tagged_users) = Len(tags)
          /\ \A i \in 1..Len(tags) :
                "user" \in DOMAIN tags[i] =>
                    ret.pm.tagged_users[i] = UserOf(tags[i].user)
          /\ OneImage(post) =>
                /\ Len(ret.pm.media_files) = 1
                /\ ret.pm.media_files[1].type = "image"

\* a raw media item has a non-empty video list, or a non-empty image list
HasVideo(m) == "video_versions" \in DOMAIN m /\ m.video_versions # <<>>

HasImage(m) ==
    "image_versions2" \in DOMAIN m /\ m.image_versions2.candidates # <<>>

HasRendition(m) == HasVideo(m) \/ HasImage(m)

\* the text before the first "_" of an identifier
FirstSegment(id) ==
    IF \E i \in 1..Len(id) : id[i] = "_"
      THEN SubSeq(id, 1, (CHOOSE i \in 1..Len(id) :
                            id[i] = "_" /\ \A j \in 1..(i - 1) : id[j] # "_") - 1)
      ELSE id

\* the extension of the entry of a raw media item
ExtOf(m) == IF HasVideo(m) THEN <<".","m","p","4">> ELSE <<".","j","p","g">>

\* the raw media items of the one record normalized, in their order
ItemsOf(category, record) ==
    IF category \in {"post", "reel"}
      THEN IF "carousel_media" \in DOMAIN record THEN record.carousel_media ELSE <<>>
      ELSE IF "items" \in DOMAIN record THEN record.items ELSE <<>>

\* C12: media_files keeps the traversal order: the i-th entry comes from the
\* i-th item that has a non-empty rendition list, named
\* {parent pk}_{first segment of the item id}.{mp4 or jpg} for a carousel and
\* {item pk}.{ext} for stories and highlights; no item that has a non-empty
\* rendition list is dropped.  Stated of the normalizations that complete.
C12_MediaFilesFollowItems ==
    (ret.op = "_process_metadata" /\ Len(ret.posts) = 1 /\ ret.exc = NoneText) =>
      LET record == ret.posts[1]
          kept == SelectSeq(ItemsOf(ret.category, record), HasRendition)
      IN  (kept # <<>>) =>
            /\ Len(ret.pm.media_files) = Len(kept)
            /\ \A i \in 1..Len(kept) :
                 IF ret.category \in {"post", "reel"}
                   THEN ("pk" \in DOMAIN record /\ "id" \in DOMAIN kept[i]) =>
                          ret.pm.media_files[i].filename =
                             record.pk \o <<"_">> \o FirstSegment(kept[i].id)
                                \o ExtOf(kept[i])
                   ELSE "pk" \in DOMAIN kept[i] =>
                          ret.pm.media_files[i].filename = kept[i].pk \o ExtOf(kept[i])

\* the raw media items of the one record normalized: the items of its
\* carousel or of its items list, or the flat post record itself
SourcesOf(category, record) ==
    IF category \in {"post", "reel"} /\ "carousel_media" \notin DOMAIN record
      THEN <<record>>
      ELSE ItemsOf(category, record)

\* C17: each raw media item (a carousel item, a story or highlight item, a
\* flat post record itself) contributes at most one media_files entry, and
\* for an item with both video_versions and image candidates that entry is
\* the video one, of the first-listed rendition.  Stated of the
\* normalizations that complete.
C17_OneEntryPerItem ==
    (ret.op = "_process_metadata" /\ Len(ret.posts) = 1 /\ ret.exc = NoneText) =>
      LET src == SourcesOf(ret.category, ret.posts[1])
          files == ret.pm.media_files
      IN  /\ Len(files) <= Len(src)
          /\ \A k \in 1..Len(src) :
               (HasVideo(src[k]) /\ HasImage(src[k])) =>
                  /\ \E i \in 1..Len(files) :
                        /\ files[i].type = "video"
                        /\ files[i].url = src[k].video_versions[1].url
                  /\ \A i \in 1..Len(files) :
                        files[i].url # src[k].image_versions2.candidates[1].url

\* the caption text of a post record or the title of a highlight record,
\* empty when it has none
CaptionOf(category, record) ==
    IF category \in {"post", "reel"}
      THEN IF "caption" \in DOMAIN record /\ "text" \in DOMAIN record.caption
             THEN record.caption.text ELSE <<>>
      ELSE IF "title" \in DOMAIN record THEN record.title ELSE <<>>

\* the places of the records of a list that have a caption
Captioned(category, posts) ==
    {i \in 1..Len(posts) : CaptionOf(category, posts[i]) # <<>>}

\* C18: the normalized caption of a list of records is the first non-empty
\* caption.text (post, reel) or title (highlight) in list order, which later
\* records do not overwrite; for stories the caption is always null.  Stated
\* of the normalizations that complete.
C18_FirstCaptionWins ==
    (ret.op = "_process_metadata" /\ ret.exc = NoneText) =>
        IF ret.category = "stories" THEN ret.pm.caption = NoneText
        ELSE LET at == Captioned(ret.category, ret.posts)
             IN  (at # {}) =>
                    ret.pm.caption =
                       CaptionOf(ret.category,
                                 ret.posts[CHOOSE i \in at : \A j \in at : i <= j])

\* a raw record carries the reel tag
IsClips(record) ==
    "product_type" \in DOMAIN record /\ record.product_type = <<"c","l","i","p","s">>

\* C19: a record of product_type "clips" reached through a post-shaped URL is
\* returned with content_type reel; a record reached through a reel-shaped
\* URL is never re-labeled post; in every other case the returned
\* content_type is the category the URL matched.  Stated of the
\* normalizations that complete.
C19_ReelTagRelabels ==
    (ret.op = "_process_metadata" /\ ret.exc = NoneText) =>
        IF ret.category = "post" /\ \E i \in 1..Len(ret.posts) : IsClips(ret.posts[i])
          THEN ret.pm.content_type = "reel"
        ELSE IF ret.category = "reel"
          THEN ret.pm.content_type # "post"
        ELSE ret.pm.content_type = ret.category

\* the records that are a full record of their category less any of its
\* fields, and the post records whose usertags has no `in` list or a tag
\* with no user
LessFields ==
    PostRecords
      \cup {Restrict(FullHighlight, S) : S \in SUBSET DOMAIN FullHighlight}
      \cup {Restrict(FullStory, S) : S \in SUBSET DOMAIN FullStory}
      \cup {r \in MorePosts : "usertags" \in DOMAIN r /\ "caption" \notin DOMAIN r}

\* C20: normalization never fails on a missing optional field: for a record
\* of any category with any subset of its fields absent, it completes
\* without raising.
C20_MissingFieldsDoNotRaise ==
    (ret.op = "_process_metadata" /\ \A i \in 1..Len(ret.posts) : ret.posts[i] \in LessFields)
        => ret.exc = NoneText

\* the identifier of a raw media item: the id of a carousel item, the pk of
\* a story or highlight item
ItemKey(category) == IF category \in {"post", "reel"} THEN "id" ELSE "pk"

\* the media items of a record all have an identifier, and no two the same
DistinctItems(category, record) ==
    LET items == ItemsOf(category, record)
        key == ItemKey(category)
    IN  /\ \A i \in 1..Len(items) : key \in DOMAIN items[i]
        /\ \A i, j \in 1..Len(items) : items[i][key] = items[j][key] => i = j

\* C22: within one normalized record no two media_files entries share a
\* filename, when the media items of the raw record have distinct identifiers
\* (carousel item ids, story and highlight item pks).  Stated of the
\* normalizations that complete.
C22_FilenamesAreDistinct ==
    (ret.op = "_process_metadata" /\ Len(ret.posts) = 1 /\ ret.exc = NoneText
        /\ DistinctItems(ret.category, ret.posts[1])) =>
        \A i, j \in 1..Len(ret.pm.media_files) :
            ret.pm.media_files[i].filename = ret.pm.media_files[j].filename => i = j

\* ------------------------------------- claims on the files of a download

\* the .mp4 files job.run wrote into the working directory of the call
Mp4Written == {n \in DOMAIN ret.env.download : EndsWith(n, <<".","m","p","4">>)}

\* C13: within one download_content call the transcoder is run exactly once
\* on each .mp4 file of the working directory when the returned content_type
\* is reel, a post-shaped URL re-labeled reel included, and never for content
\* of another category.
C13_TranscodesEveryReel ==
    (ret.op = "download_content" /\ ret.stage = "done") =>
        IF ret.record.content_type = "reel"
          THEN /\ Range(ret.ffmpeg_calls) = Mp4Written
               /\ Len(ret.ffmpeg_calls) = Cardinality(Mp4Written)
          ELSE ret.ffmpeg_calls = <<>>

\* C14: a transcoder failure is not fatal and leaves the original file in
\* place: after a call that ran the transcoder, download_content has returned
\* and each file it was run on is in the working directory, transcoded when
\* every step succeeded and with its original content otherwise.
C14_TranscoderFailureKeepsFile ==
    (ret.op = "download_content" /\ ret.ffmpeg_calls # <<>>) =>
        /\ ~ret.raised
        /\ \A i \in 1..Len(ret.ffmpeg_calls) :
             /\ ret.ffmpeg_calls[i] \in DOMAIN fs[self.temp_dir]
             /\ fs[self.temp_dir][ret.ffmpeg_calls[i]] =
                   (IF ret.env.ffmpeg = "ok" THEN "transcoded" ELSE "original")

\* the image entries of a record, in their order
ImagesOf(record) == SelectSeq(record.media_files, LAMBDA f : f.type = "image")

\* C15: the thumbnail fetch is attempted at most once in a download_content
\* call, only when the normalized content_type is reel and media_files holds
\* an image entry, and it is the first image entry that is fetched and
\* written; whatever the fetch does, the call raises or returns, and returns
\* the record, as it does when the fetch succeeds.
C15_ThumbnailIsBestEffort ==
    [][ (ret'.op = "download_content") =>
          /\ ret'.gets <= 1
          /\ (ret'.gets = 1) =>
                /\ ret'.record.content_type = "reel"
                /\ ImagesOf(ret'.record) # <<>>
                /\ (ret'.env.thumb = "200") =>
                      /\ ImagesOf(ret'.record)[1].filename \in DOMAIN fs'[self'.temp_dir]
                      /\ fs'[self'.temp_dir][ImagesOf(ret'.record)[1].filename] = "thumbnail"
                      /\ \A i \in 2..Len(ImagesOf(ret'.record)) :
                           ImagesOf(ret'.record)[i].filename \notin DOMAIN fs'[self'.temp_dir]
          /\ \E ok \in download_content(World, ret'.url, [ret'.env EXCEPT !.thumb = "200"]) :
                /\ ok.raised = ret'.raised
                /\ ok.record = ret'.record
                /\ ok.error = ret'.error ]_vars

\* a call on a reel of several images made its one fetch, the fetch failed
\* with a network error, and the call returned its record
C15_Witness ==
    /\ ret.op = "download_content"
    /\ ret.env.thumb = "request_error"
    /\ ret.gets = 1
    /\ ~ret.raised
    /\ ret.record.content_type = "reel"
    /\ Len(ImagesOf(ret.record)) = 2

\* ------------------------------------------- claims on the record returned

\* C16: a returned record is never mutated: no operation of the downloader
\* changes a field of the dict download_content last returned.  After every
\* step, that dict, if the downloader still holds it, has the value it was
\* returned with (a dict the downloader no longer holds is out of its reach,
\* and pm_obj never comes back to an earlier object).
C16_ReturnedRecordIsNotMutated ==
    [][ /\ (held.any /\ self'.pm_obj = held.obj) =>
              self'.processed_metadata = held.record
        /\ self'.pm_obj >= self.pm_obj ]_vars

\* a second call on a downloader whose first call returned a normalized
\* record raised, and left the downloader with another record
C16_Witness ==
    /\ held.any
    /\ calls = 2
    /\ ret.op = "download_content"
    /\ ret.raised
    /\ held.record.media_files # <<>>
    /\ self.processed_metadata # held.record
    /\ self.pm_obj # held.obj

\* ------------------------------------------ claims on the steps of a call

\* the steps of download_content in the order the claim gives them; the
\* directory and the configuration are made ready between the first two
StepOrder ==
    <<"validate", "mkdtemp", "configure", "run", "posts", "normalize",
      "thumbnail", "walk">>

\* the place of a step in StepOrder
StepPlace(step) == CHOOSE i \in 1..Len(StepOrder) : StepOrder[i] = step

\* the steps that follow the extraction
AfterExtraction == {"normalize", "thumbnail", "walk"}

\* C21: within one download_content call the steps run in the order URL
\* classification, extraction, normalization, thumbnail fetch, transcoding,
\* each at most once; no step is entered after a step that failed with a
\* propagated or private-content error; and cleanup comes after all of them
\* (main has cleaned up when it returns).
C21_StepsInOrder ==
    /\ ret.op = "download_content" =>
          /\ ret.trace # <<>> /\ ret.trace[1] = "validate"
          /\ \A i, j \in 1..Len(ret.trace) :
                i < j => StepPlace(ret.trace[i]) < StepPlace(ret.trace[j])
          /\ (ret.gets > 0) => "thumbnail" \in Range(ret.trace)
          /\ (ret.ffmpeg_calls # <<>>) => "walk" \in Range(ret.trace)
          /\ ret.raised => Range(ret.trace) \cap {"thumbnail", "walk"} = {}
          /\ (ret.env.run_error # NoneText /\ Len(ret.trace) > 1) =>
                ret.trace[Len(ret.trace)] = "run"
          /\ (ret.env.run_error = NoneText /\ ret.env.posts_error # NoneText) =>
                ret.trace[Len(ret.trace)] = "posts"
          /\ (~ret.raised /\ ret.record.is_private) =>
                Range(ret.trace) \cap AfterExtraction = {}
    /\ ret.op = "main" => self.temp_dir = None /\ fs = EmptyDict

\* ------------------------------------------ claims on the configuration

\* C23: when the extraction job is run the configuration has skip set to
\* False, the metadata post-processor, base-directory equal to the
\* downloader's working directory, and as cookies the cookie file when
\* cookies_path is given and the file exists, the header bundle otherwise.
\* Nothing after job.run changes the configuration or the working directory,
\* so they are read when the call has ended.
C23_ConfiguredWhenRun ==
    (ret.op = "download_content" /\ "run" \in Range(ret.trace)) =>
        /\ config.skip = "False"
        /\ config.postprocessors = "metadata"
        /\ self.temp_dir # None
        /\ self.temp_dir \in DOMAIN fs
        /\ config.base_directory = self.temp_dir
        /\ config.cookies =
              (IF self.cookies_path # None /\ ret.env.cookie_exists
                 THEN self.cookies_path ELSE "INSTAGRAM_HEADERS")

\* the job was run, after a cleanup, by a downloader whose cookie file is
\* not there
C23_Witness ==
    /\ ret.op = "download_content"
    /\ "run" \in Range(ret.trace)
    /\ self.cookies_path # None
    /\ ~ret.env.cookie_exists
    /\ config.cookies = "INSTAGRAM_HEADERS"
    /\ made = 2
    /\ config.base_directory = DirName(2)

\* --------------------------------------- claims on a downloader's life

\* C24: the downloader's list of media file paths never holds the same path
\* twice and holds only files of the most recent download: whatever calls
\* were made, each file is listed at most once and no listed path is in a
\* directory that cleanup has removed.
C24_MediaFilesAreCurrent ==
    /\ \A i, j \in 1..Len(self.media_files) :
          self.media_files[i] = self.media_files[j] => i = j
    /\ \A i \in 1..Len(self.media_files) : self.media_files[i].dir \in DOMAIN fs

\* C25: the extraction call of a downloader uses that downloader's proxy
\* setting: when a downloader constructed without a proxy has run the job,
\* the configuration holds no proxy, whatever downloaders ran before it in
\* the process.
C25_ProxyIsTheDownloaders ==
    (ret.op = "download_content" /\ "run" \in Range(ret.trace)) =>
        config.proxy = (IF self.proxy = None THEN "unset" ELSE self.proxy)

\* C26: no working directory is leaked: when a sequence of
\* create_temp_directory, download_content and cleanup calls on one
\* downloader ends with cleanup, no directory the downloader created is left;
\* and download_content creates a directory only when none is set (a fresh
\* one, also on the first call after cleanup) and reuses the current one
\* otherwise.
C26_NoDirectoryIsLeaked ==
    [][ /\ (ret'.op = "cleanup") => fs' = EmptyDict
        /\ (ret'.op = "download_content" /\ "run" \in Range(ret'.trace)) =>
              IF self.temp_dir = None
                THEN /\ made' = made + 1
                     /\ self'.temp_dir = DirName(made')
                     /\ self'.temp_dir \notin DOMAIN fs
                     /\ DOMAIN fs' = DOMAIN fs \cup {self'.temp_dir}
                ELSE /\ made' = made
                     /\ self'.temp_dir = self.temp_dir
                     /\ DOMAIN fs' = DOMAIN fs ]_vars

====
